---- MODULE Spec2Model ----
(***************************************************************************)
(* Model of the phishing-URL decision pipeline of phishdetect.py:         *)
(* PhishingDetector (construction, is_official, check_brand_usage,        *)
(* extract_features, analyze) driven by the read/analyze loop of main().  *)
(*                                                                         *)
(* Python strings are sequences of one-character strings, so that         *)
(* substring tests, counts, lower-casing, URL splitting and the           *)
(* public-suffix split are computed and not assumed.  A Python dict is a  *)
(* sequence of <<key, value>> pairs in insertion order with unique keys.  *)
(* A feature value is a record [log |-> FALSE, n |-> k] for the number k, *)
(* or [log |-> TRUE, n |-> k] for the real number ln(k), k >= 2.          *)
(***************************************************************************)
EXTENDS Integers, Sequences, FiniteSets, TLC

(***************************************************************************)
(* Python str primitives                                                   *)
(***************************************************************************)
UpperChars == <<"A","B","C","D","E","F","G","H","I","J","K","L","M",
                "N","O","P","Q","R","S","T","U","V","W","X","Y","Z">>
LowerChars == <<"a","b","c","d","e","f","g","h","i","j","k","l","m",
                "n","o","p","q","r","s","t","u","v","w","x","y","z">>
DigitChars == {"0","1","2","3","4","5","6","7","8","9"}
HexChars == DigitChars \cup {"a","b","c","d","e","f"}

Range(s) == { s[i] : i \in 1..Len(s) }

\* str.lower() of one character
LowerChar(c) ==
    IF \E i \in 1..26 : UpperChars[i] = c
    THEN LowerChars[CHOOSE i \in 1..26 : UpperChars[i] = c]
    ELSE c

\* str.lower()
Lower(s) == [i \in 1..Len(s) |-> LowerChar(s[i])]

\* s[i:] and s[:i] with 1-based i (the first, resp. last, kept position)
From(s, i) == SubSeq(s, i, Len(s))
Upto(s, i) == SubSeq(s, 1, i)

\* s.startswith(p)
StartsWith(s, p) == Len(s) >= Len(p) /\ SubSeq(s, 1, Len(p)) = p

\* sub in s
Contains(s, sub) ==
    \E i \in 1..(Len(s) - Len(sub) + 1) : SubSeq(s, i, i + Len(sub) - 1) = sub

\* s.find(sub) + 1: the first position of sub in s, 0 when absent
Find(s, sub) ==
    IF Contains(s, sub)
    THEN CHOOSE i \in 1..(Len(s) - Len(sub) + 1) :
            /\ SubSeq(s, i, i + Len(sub) - 1) = sub
            /\ \A j \in 1..(i - 1) : SubSeq(s, j, j + Len(sub) - 1) # sub
    ELSE 0

\* s.rfind(c) + 1 for a single character c
RFindChar(s, c) ==
    IF c \in Range(s)
    THEN CHOOSE i \in 1..Len(s) : s[i] = c /\ \A j \in (i + 1)..Len(s) : s[j] # c
    ELSE 0

\* s.count(c) for a single character c
CountChar(s, c) == Cardinality({ i \in 1..Len(s) : s[i] = c })

\* s.partition(c)[0] and s.partition(c)[2] for a single character c
Before(s, c) == LET i == Find(s, <<c>>) IN IF i = 0 THEN s ELSE Upto(s, i - 1)
After(s, c) == LET i == Find(s, <<c>>) IN IF i = 0 THEN <<>> ELSE From(s, i + 1)

\* s.rpartition(c)[2] for a single character c
AfterLast(s, c) == From(s, RFindChar(s, c) + 1)

\* s.split(c) for a single character c
RECURSIVE Split(_, _)
Split(s, c) ==
    LET i == Find(s, <<c>>)
    IN  IF i = 0 THEN <<s>> ELSE <<Upto(s, i - 1)>> \o Split(From(s, i + 1), c)

\* c.join(parts)
RECURSIVE Join(_, _)
Join(parts, c) ==
    IF Len(parts) = 0 THEN <<>>
    ELSE IF Len(parts) = 1 THEN parts[1]
    ELSE parts[1] \o <<c>> \o Join(Tail(parts), c)

\* s.strip() on blanks
RECURSIVE Strip(_)
Strip(s) ==
    IF Len(s) > 0 /\ s[1] = " " THEN Strip(Tail(s))
    ELSE IF Len(s) > 0 /\ s[Len(s)] = " " THEN Strip(Upto(s, Len(s) - 1))
    ELSE s

\* s.rstrip(".")
RECURSIVE RStripDots(_)
RStripDots(s) ==
    IF Len(s) > 0 /\ s[Len(s)] = "." THEN RStripDots(Upto(s, Len(s) - 1)) ELSE s

\* the position after the longest run of decimal digits of s starting at i
RECURSIVE SkipDigits(_, _)
SkipDigits(s, i) ==
    IF i <= Len(s) /\ s[i] \in DigitChars THEN SkipDigits(s, i + 1) ELSE i

\* one `\d+\.` step of the dotted-quad pattern from position i; 0 on mismatch
DigitsDot(s, i) ==
    LET j == SkipDigits(s, i)
    IN  IF i # 0 /\ j > i /\ j <= Len(s) /\ s[j] = "." THEN j + 1 ELSE 0

\* the fourth `\d+` of the pattern at position p, 0 for a mismatch before
LastDigits(s, p) == p # 0 /\ SkipDigits(s, p) > p

\* re.match(r'\d+\.\d+\.\d+\.\d+', s): anchored at the start of s
MatchDottedQuad(s) == LastDigits(s, DigitsDot(s, DigitsDot(s, DigitsDot(s, 1))))

\* re.search(r'[0-9a-f]{8}', s)
SearchHexRun(s) ==
    \E i \in 1..(Len(s) - 7) : \A j \in i..(i + 7) : s[j] \in HexChars

(***************************************************************************)
(* urllib.parse.urlparse, as called at phishdetect.py line 68.  The inputs *)
(* of the model contain no ";" (path parameters), no control characters   *)
(* and no bracketed IP literal, which are the parts of urlparse not       *)
(* modelled.                                                               *)
(***************************************************************************)
SchemeChars == Range(UpperChars) \cup Range(LowerChars) \cup DigitChars \cup {"+", "-", "."}
Letters == Range(UpperChars) \cup Range(LowerChars)

\* the position of the first of "/", "?", "#" in s, Len(s) + 1 when none
RECURSIVE NetlocEnd(_, _)
NetlocEnd(s, i) ==
    IF i > Len(s) \/ s[i] \in {"/", "?", "#"} THEN i ELSE NetlocEnd(s, i + 1)

\* urlsplit finds a scheme in front of the first ":" at position i
has_scheme(url, i) ==
    /\ i > 1
    /\ url[1] \in Letters
    /\ \A j \in 1..(i - 1) : url[j] \in SchemeChars

\* urlsplit, last part: fragment, query and path of what follows the netloc
split_tail(scheme, netloc, rest) ==
    [raises |-> ("[" \in Range(netloc)) # ("]" \in Range(netloc)),
     scheme |-> scheme, netloc |-> netloc,
     path |-> Before(Before(rest, "#"), "?"),
     query |-> After(Before(rest, "#"), "?"),
     fragment |-> After(rest, "#")]

\* urlsplit, middle part: the netloc after "//", up to position e
split_netloc(scheme, rest, e) ==
    IF StartsWith(rest, <<"/", "/">>)
    THEN split_tail(scheme, SubSeq(rest, 3, e - 1), From(rest, e))
    ELSE split_tail(scheme, <<>>, rest)

\* urlsplit, first part: the scheme in front of the first ":" at position i
split_scheme(url, i) ==
    IF has_scheme(url, i)
    THEN split_netloc(Lower(Upto(url, i - 1)), From(url, i + 1), NetlocEnd(From(url, i + 1), 3))
    ELSE split_netloc(<<>>, url, NetlocEnd(url, 3))

\* urlparse(url): [raises, scheme, netloc, path, query, fragment]
urlparse(url) == split_scheme(url, Find(url, <<":">>))

\* the keys of the fields that have a value
query_keys(fields) ==
    { Before(fields[k], "=") :
        k \in { j \in 1..Len(fields) : Len(After(fields[j], "=")) > 0 } }

\* urllib.parse.parse_qs(query) with its defaults, reduced to its key set:
\* fields split on "&", name and value split at the first "=", fields with
\* a blank value dropped.  Percent-decoding of names is not modelled (no
\* input has "%" or "+" in a query).
parse_qs(query) == query_keys(Split(query, "&"))

(***************************************************************************)
(* tldextract.extract, as called at phishdetect.py lines 48, 56 and 69.   *)
(* PublicSuffixes is the part of the public suffix list the inputs use.   *)
(***************************************************************************)
PublicSuffixes ==
    { << <<"c","o","m">> >>,
      << <<"u","k">> >>,
      << <<"c","o">>, <<"u","k">> >> }

\* tldextract's _schemeless_url, d the position of the first "//"
schemeless_from(url, d) ==
    IF d = 1 THEN From(url, 3)
    ELSE IF \/ d < 3
            \/ url[d - 1] # ":"
            \/ \E j \in 1..(d - 2) : url[j] \notin SchemeChars
         THEN url
         ELSE From(url, d + 2)

schemeless_url(url) == schemeless_from(url, Find(url, <<"/", "/">>))

\* tldextract's lenient_netloc, second half: the bracketed literal, or the
\* host without port and root label
host_of(after_userinfo) ==
    IF /\ Len(after_userinfo) > 0
       /\ after_userinfo[1] = "["
       /\ "]" \in Range(after_userinfo)
    THEN Upto(after_userinfo, Find(after_userinfo, <<"]">>))
    ELSE RStripDots(Strip(Before(after_userinfo, ":")))

\* tldextract's lenient_netloc: host without scheme, path, userinfo, port
lenient_netloc(url) ==
    host_of(AfterLast(Before(Before(Before(schemeless_url(url), "/"), "?"), "#"), "@"))

\* the positions at which a public suffix starts in the lower-cased labels
suffix_starts(low) ==
    { k \in 1..Len(low) : SubSeq(low, k, Len(low)) \in PublicSuffixes }

\* the least element of a non-empty set of numbers
Least(S) == CHOOSE k \in S : \A m \in S : k <= m

\* the number of labels in front of the longest public suffix, all of them
\* when no suffix matches
index_from(n, starts) == IF starts = {} THEN n ELSE Least(starts) - 1

suffix_index(labels) ==
    index_from(Len(labels), suffix_starts([k \in 1..Len(labels) |-> Lower(labels[k])]))

\* tldextract's looks_like_ip on the split labels
looks_like_ip(labels) ==
    /\ Len(labels) = 4
    /\ \A k \in 1..4 : Len(labels[k]) > 0 /\ Range(labels[k]) \subseteq DigitChars

\* the ExtractResult for labels of which the first k are not in the suffix
extract_result(netloc, labels, k) ==
    IF k = Len(labels) /\ looks_like_ip(labels)
    THEN [subdomain |-> <<>>, domain |-> netloc, suffix |-> <<>>]
    ELSE [subdomain |-> IF k >= 2 THEN Join(SubSeq(labels, 1, k - 1), ".") ELSE <<>>,
          domain |-> IF k >= 1 THEN labels[k] ELSE <<>>,
          suffix |-> Join(SubSeq(labels, k + 1, Len(labels)), ".")]

extract_labels(netloc, labels) == extract_result(netloc, labels, suffix_index(labels))

extract_netloc(netloc) == extract_labels(netloc, Split(netloc, "."))

\* tldextract.extract(url): [subdomain, domain, suffix]
tldextract(url) == extract_netloc(lenient_netloc(url))

(***************************************************************************)
(* Python dict and number primitives                                       *)
(***************************************************************************)
\* the number k as a feature value
V(k) == [log |-> FALSE, n |-> k]

\* math.log(k) for an integer k >= 1: ln(1) is the number 0
math_log(k) == IF k = 1 THEN V(0) ELSE [log |-> TRUE, n |-> k]

\* max(a, b) and min(a, b)
Max(a, b) == IF a >= b THEN a ELSE b
Min(a, b) == IF a <= b THEN a ELSE b

\* int(b) for a bool b
BoolInt(b) == IF b THEN 1 ELSE 0

\* truth value of a feature value, as in `if features[...]`
Truthy(v) == v # V(0)

\* list(d): the keys of d in insertion order
Keys(d) == [i \in 1..Len(d) |-> d[i][1]]

\* k in d
HasKey(d, k) == \E i \in 1..Len(d) : d[i][1] = k

\* d.get(k, dflt)
DictGet(d, k, dflt) ==
    IF HasKey(d, k) THEN d[CHOOSE i \in 1..Len(d) : d[i][1] = k][2] ELSE dflt

\* d[k] = v
DictSet(d, k, v) ==
    IF HasKey(d, k)
    THEN [i \in 1..Len(d) |-> IF d[i][1] = k THEN <<k, v>> ELSE d[i]]
    ELSE Append(d, <<k, v>>)

\* d.update(items), items in the order of the dict literal
RECURSIVE DictUpdate(_, _)
DictUpdate(d, items) ==
    IF Len(items) = 0 THEN d
    ELSE DictUpdate(DictSet(d, items[1][1], items[1][2]), Tail(items))

(***************************************************************************)
(* Feature schemas: model/feature_names.json, the column list that        *)
(* train_model.py writes from the data set.  The candidate schemas differ  *)
(* in order, omit names that extract_features computes and hold names it  *)
(* never computes.                                                         *)
(***************************************************************************)
SchemaFull ==
    << "UrlLength", "NumDots", "SubdomainLevel", "PathLevel", "NumDash",
       "NumDashInHostname", "AtSymbol", "TildeSymbol", "NumUnderscore",
       "NumPercent", "NumQueryComponents", "NumAmpersand", "NumHash",
       "NumNumericChars", "NoHttps", "RandomString", "IpAddress",
       "HttpsInHostname", "HostnameLength", "PathLength", "QueryLength",
       "DoubleSlashInPath", "PctExtHyperlinks", "SubdomainLevelRT",
       "UrlLengthRT", "NumSensitiveWords", "BrandSpoofing", "IsOfficialDomain" >>
SchemaDataset ==
    << "NumDots", "SubdomainLevel", "PathLevel", "UrlLength", "NumDash",
       "NoHttps", "NumSensitiveWords", "EmbeddedBrandName", "PctExtHyperlinks" >>
SchemaNoHttpsAbsent ==
    << "IframeOrFrame", "BrandSpoofing", "UrlLength", "NumDots" >>
Schemas == { SchemaFull, SchemaDataset, SchemaNoHttpsAbsent }

(***************************************************************************)
(* Configuration tables of PhishingDetector.__init__                       *)
(***************************************************************************)
SensitiveWordsTable ==
    << <<"l", "o", "g", "i", "n">>,
       <<"s", "i", "g", "n", "i", "n">>,
       <<"v", "e", "r", "i", "f", "y">>,
       <<"a", "c", "c", "o", "u", "n", "t">>,
       <<"s", "e", "c", "u", "r", "e">>,
       <<"b", "a", "n", "k">>,
       <<"p", "a", "y", "m", "e", "n", "t">>,
       <<"u", "p", "d", "a", "t", "e">>,
       <<"c", "o", "n", "f", "i", "r", "m">>,
       <<"p", "a", "s", "s", "w", "o", "r", "d">> >>

OfficialDomainsTable ==
    << <<"p", "a", "y", "p", "a", "l", ".", "c", "o", "m">>,
       <<"w", "w", "w", ".", "p", "a", "y", "p", "a", "l", ".", "c", "o", "m">>,
       <<"p", "a", "y", "p", "a", "l", "o", "b", "j", "e", "c", "t", "s", ".", "c", "o", "m">>,
       <<"a", "m", "a", "z", "o", "n", ".", "c", "o", "m">>,
       <<"w", "w", "w", ".", "a", "m", "a", "z", "o", "n", ".", "c", "o", "m">>,
       <<"a", "m", "a", "z", "o", "n", "a", "w", "s", ".", "c", "o", "m">>,
       <<"a", "p", "p", "l", "e", ".", "c", "o", "m">>,
       <<"w", "w", "w", ".", "a", "p", "p", "l", "e", ".", "c", "o", "m">>,
       <<"i", "c", "l", "o", "u", "d", ".", "c", "o", "m">>,
       <<"g", "o", "o", "g", "l", "e", ".", "c", "o", "m">>,
       <<"w", "w", "w", ".", "g", "o", "o", "g", "l", "e", ".", "c", "o", "m">>,
       <<"g", "o", "o", "g", "l", "e", "a", "p", "i", "s", ".", "c", "o", "m">>,
       <<"m", "i", "c", "r", "o", "s", "o", "f", "t", ".", "c", "o", "m">>,
       <<"w", "w", "w", ".", "m", "i", "c", "r", "o", "s", "o", "f", "t", ".", "c", "o", "m">>,
       <<"l", "i", "v", "e", ".", "c", "o", "m">>,
       <<"e", "b", "a", "y", ".", "c", "o", "m">>,
       <<"w", "w", "w", ".", "e", "b", "a", "y", ".", "c", "o", "m">>,
       <<"n", "e", "t", "f", "l", "i", "x", ".", "c", "o", "m">>,
       <<"w", "w", "w", ".", "n", "e", "t", "f", "l", "i", "x", ".", "c", "o", "m">>,
       <<"b", "a", "n", "k", "o", "f", "a", "m", "e", "r", "i", "c", "a", ".", "c", "o", "m">>,
       <<"w", "w", "w", ".", "b", "a", "n", "k", "o", "f", "a", "m", "e", "r", "i", "c", "a", ".", "c", "o", "m">>,
       <<"w", "e", "l", "l", "s", "f", "a", "r", "g", "o", ".", "c", "o", "m">>,
       <<"w", "w", "w", ".", "w", "e", "l", "l", "s", "f", "a", "r", "g", "o", ".", "c", "o", "m">>,
       <<"c", "h", "a", "s", "e", ".", "c", "o", "m">>,
       <<"w", "w", "w", ".", "c", "h", "a", "s", "e", ".", "c", "o", "m">> >>

KnownBrandsTable ==
    << <<"p", "a", "y", "p", "a", "l">>,
       <<"a", "m", "a", "z", "o", "n">>,
       <<"a", "p", "p", "l", "e">>,
       <<"g", "o", "o", "g", "l", "e">>,
       <<"m", "i", "c", "r", "o", "s", "o", "f", "t">>,
       <<"e", "b", "a", "y">>,
       <<"n", "e", "t", "f", "l", "i", "x">>,
       <<"b", "a", "n", "k", "o", "f", "a", "m", "e", "r", "i", "c", "a">>,
       <<"w", "e", "l", "l", "s", "f", "a", "r", "g", "o">>,
       <<"c", "h", "a", "s", "e">> >>

(***************************************************************************)
(* The lines typed at the prompt of main()                                 *)
(***************************************************************************)
RawInputs ==
    { <<"h", "t", "t", "p", "s", ":", "/", "/", "p", "a", "y", "p", "a", "l", ".", "c", "o", "m">>,
      <<"p", "a", "y", "p", "a", "l", ".", "c", "o", "m">>,
      <<"h", "t", "t", "p", ":", "/", "/", "w", "w", "w", ".", "p", "a", "y", "p", "a", "l", ".", "c", "o", "m", "/", "l", "o", "g", "i", "n", "?", "x", "=", "1">>,
      <<"h", "t", "t", "p", "s", ":", "/", "/", "P", "a", "y", "P", "a", "l", ".", "c", "o", "m", "/">>,
      <<"h", "t", "t", "p", ":", "/", "/", "p", "a", "y", "p", "a", "l", ".", "c", "o", "m", ":", "8", "0", "8", "0", "/", "a">>,
      <<"h", "t", "t", "p", ":", "/", "/", "p", "a", "y", "p", "a", "l", ".", "s", "e", "c", "u", "r", "e", "-", "l", "o", "g", "i", "n", ".", "e", "x", "a", "m", "p", "l", "e", ".", "c", "o", "m">>,
      <<"h", "t", "t", "p", ":", "/", "/", "s", "e", "c", "u", "r", "e", "-", "l", "o", "g", "i", "n", "-", "v", "e", "r", "i", "f", "y", ".", "e", "x", "a", "m", "p", "l", "e", ".", "c", "o", "m">>,
      <<"h", "t", "t", "p", "s", ":", "/", "/", "s", "e", "c", "u", "r", "e", "-", "l", "o", "g", "i", "n", "-", "v", "e", "r", "i", "f", "y", ".", "e", "x", "a", "m", "p", "l", "e", ".", "c", "o", "m", "/", "a", "c", "c", "o", "u", "n", "t">>,
      <<"h", "t", "t", "p", ":", "/", "/">>,
      <<>>,
      <<"h", "t", "t", "p", "s", ":", "/", "/">>,
      <<"h", "t", "t", "p", ":", "/", "/", "[">>,
      <<"h", "t", "t", "p", "s", ":", "/", "/", "[", "e", "v", "i", "l", ".", "c", "o", "m", "/", "l", "o", "g", "i", "n">>,
      <<"h", "t", "t", "p", ":", "/", "/", "e", "x", "a", "m", "p", "l", "e", ".", "c", "o", ".", "u", "k">>,
      <<"h", "t", "t", "p", ":", "/", "/", "p", "a", "y", "p", "a", "l", ".", "c", "o", ".", "u", "k">>,
      <<"h", "t", "t", "p", ":", "/", "/", "p", "a", "y", "p", "a", "l", ".", "c", "o", "m", ".", "e", "v", "i", "l", ".", "c", "o", "m", "/">>,
      <<"h", "t", "t", "p", "s", ":", "/", "/", "m", "a", "i", "l", ".", "g", "o", "o", "g", "l", "e", ".", "c", "o", "m", "/", "a", "/", "/", "b", "?", "x", "=", "1", "&", "x", "=", "2", "&", "y", "=", "3", "#", "f">>,
      <<"h", "t", "t", "p", ":", "/", "/", "1", "9", "2", ".", "1", "6", "8", ".", "0", ".", "1", "/", "~", "u", "_", "1", "%", "2", "0">>,
      <<"h", "t", "t", "p", ":", "/", "/", "u", "s", "e", "r", "@", "p", "a", "y", "p", "a", "l", ".", "c", "o", "m">>,
      <<"h", "t", "t", "p", ":", "/", "/", "p", "a", "y", "p", "a", "l", "@", "e", "v", "i", "l", ".", "c", "o", "m">>,
      <<"f", "t", "p", ":", "/", "/", "p", "a", "y", "p", "a", "l", ".", "c", "o", "m">>,
      <<"H", "T", "T", "P", "S", ":", "/", "/", "p", "a", "y", "p", "a", "l", ".", "c", "o", "m">>,
      <<" ", "h", "t", "t", "p", "s", ":", "/", "/", "w", "w", "w", ".", "c", "h", "a", "s", "e", ".", "c", "o", "m", "/", " ">>,
      <<"h", "t", "t", "p", ":", "/", "/", "e", "v", "i", "l", ".", "c", "o", "m", "/", "p", "a", "y", "p", "a", "l">>,
      <<"h", "t", "t", "p", "s", ":", "/", "/", "e", "x", "a", "m", "p", "l", "e", ".", "c", "o", "m", "/", "d", "e", "a", "d", "b", "e", "e", "f", "1", "2">>,
      <<"h", "t", "t", "p", "s", ":", "/", "/", "a", "m", "a", "z", "o", "n", ".", "e", "x", "a", "m", "p", "l", "e", ".", "c", "o", "m">>,
      <<"h", "t", "t", "p", "s", ":", "/", "/", "e", "x", "a", "m", "p", "l", "e", ".", "c", "o", "m">>,
      <<"h", "t", "t", "p", "s", ":", "/", "/", "l", "o", "g", "i", "n", "-", "s", "e", "c", "u", "r", "e", "-", "v", "e", "r", "i", "f", "y", ".", "e", "x", "a", "m", "p", "l", "e", ".", "c", "o", "m">>,
      <<"h", "t", "t", "p", "s", ":", "/", "/", "/", "l", "o", "g", "i", "n">>,
      <<"q", "u", "i", "t">>,
      <<"E", "X", "I", "T">> }

\* "quit" and "exit", the words that end the loop of main()
QuitWords == { <<"q","u","i","t">>, <<"e","x","i","t">> }

\* "http://" and "https://"
HttpPrefix == <<"h","t","t","p",":","/","/">>
HttpsPrefix == <<"h","t","t","p","s",":","/","/">>
HttpsWord == <<"h","t","t","p","s">>

(***************************************************************************)
(* Bounds and program constants                                            *)
(***************************************************************************)
\* the classifier's probabilities are the fractions n / MaxDen, 0 <= n <= MaxDen,
\* and the one just above the threshold
MaxDen == 10
\* the decision threshold 0.7 as ThresholdNum / ThresholdDen
ThresholdNum == 7
ThresholdDen == 10
\* the cap of the statistical confidence
ConfidenceCap == 99
\* a sensitive-word count above this adds a threat indicator
SensitiveLimit == 2

\* 0.7000001, the probability next above the threshold
JustAboveThreshold == <<7000001, 10000000>>

Probabilities == { <<n, MaxDen>> : n \in 0..MaxDen } \cup { JustAboveThreshold }

\* the callers that use one detector at the same time
NumCallers == 2
Callers == 1..NumCallers

\* what the concurrent callers submit: an official url with a sensitive
\* word, a url that urlparse rejects and a brand-spoofing url
ConcurrentInputs ==
    { <<"h","t","t","p",":","/","/","w","w","w",".","p","a","y","p","a","l",".","c","o","m","/","l","o","g","i","n","?","x","=","1">>,
      <<"h","t","t","p",":","/","/","[">>,
      <<"h","t","t","p",":","/","/","p","a","y","p","a","l",".","s","e","c","u","r","e","-","l","o","g","i","n",".","e","x","a","m","p","l","e",".","c","o","m">> }

\* the probabilities the classifier returns to the concurrent callers
ConcurrentProbabilities == { <<0, MaxDen>>, <<MaxDen, MaxDen>> }

(***************************************************************************)
(* State                                                                   *)
(***************************************************************************)
VARIABLES
    feature_names,     \* self.feature_names: the schema, a list of names
    default_features,  \* self.default_features: dict name -> 0
    sensitive_words,   \* self.sensitive_words
    official_domains,  \* self.official_domains
    known_brands,      \* self.known_brands
    pc,                \* per caller: "prompt", "call", "extracted", "print" or "exit"
    url,               \* per caller: the stripped line it read
    features,          \* per caller: the local `features` of its analyze call
    result,            \* per caller: the value its analyze call returned
    proba,             \* per caller: the probability predict_proba returned in that call
    scored             \* per caller: the frame handed to predict_proba in that call

config == <<feature_names, default_features, sensitive_words, official_domains, known_brands>>
tables == <<feature_names, sensitive_words, official_domains, known_brands>>
vars == <<feature_names, default_features, sensitive_words, official_domains,
          known_brands, pc, url, features, result, proba, scored>>

\* {name: 0 for name in names}
ZeroDict(names) == [i \in 1..Len(names) |-> <<names[i], V(0)>>]

\* x in lst, for a list of strings
InList(x, lst) == \E i \in 1..Len(lst) : lst[i] = x

NoResult == [kind |-> "none", result |-> "", confidence |-> "", threats |-> <<>>,
             features |-> <<>>, ref |-> "", error |-> ""]
NoProba == <<>>
NotScored == [called |-> FALSE, columns |-> <<>>, row |-> <<>>]

(***************************************************************************)
(* PhishingDetector                                                        *)
(***************************************************************************)
\* f"{ext.domain}.{ext.suffix}"
base_domain(ext) == ext.domain \o <<".">> \o ext.suffix

\* is_official without the registrable-domain test
is_official_exact(hostname) == InList(Lower(hostname), official_domains)

is_official(hostname) ==
    LET ext == tldextract(Lower(hostname))
    IN  \/ InList(base_domain(ext), official_domains)
        \/ InList(Lower(hostname), official_domains)

\* check_brand_usage without the test against the main domain
check_brand_in_hostname(hostname) ==
    IF is_official(hostname) THEN 0
    ELSE IF \E i \in 1..Len(known_brands) : Contains(Lower(hostname), known_brands[i])
         THEN 1 ELSE 0

check_brand_usage(hostname) ==
    IF is_official(hostname) THEN 0
    ELSE LET main_domain == base_domain(tldextract(Lower(hostname)))
         IN  IF \E i \in 1..Len(known_brands) :
                    /\ Contains(Lower(hostname), known_brands[i])
                    /\ ~Contains(main_domain, known_brands[i])
             THEN 1 ELSE 0

\* sum(word in url.lower() for word in self.sensitive_words)
count_sensitive(u) ==
    Cardinality({ i \in 1..Len(sensitive_words) : Contains(Lower(u), sensitive_words[i]) })

\* the sensitive-word count without the official-domain guard
num_sensitive_always(official, u) == count_sensitive(u)

\* 0 if is_official else sum(...)
num_sensitive_words(official, u) == IF official THEN 0 ELSE count_sensitive(u)

\* the keys of the dict literal of features.update(...)
ComputedNames ==
    { "NumDots", "SubdomainLevel", "PathLevel", "UrlLength", "NumDash",
      "NumDashInHostname", "AtSymbol", "TildeSymbol", "NumUnderscore",
      "NumPercent", "NumQueryComponents", "NumAmpersand", "NumHash",
      "NumNumericChars", "NoHttps", "RandomString", "IpAddress",
      "HttpsInHostname", "HostnameLength", "PathLength", "QueryLength",
      "DoubleSlashInPath", "SubdomainLevelRT", "UrlLengthRT",
      "IsOfficialDomain", "BrandSpoofing", "NumSensitiveWords" }

\* the dict literal of features.update(...), in its written order, from the
\* locals parsed, ext, hostname, path and is_official
feature_items(u, parsed, ext, hostname, path, official) ==
    << <<"NumDots", V(CountChar(u, "."))>>,
       <<"SubdomainLevel", V(CountChar(ext.subdomain, ".") + 1)>>,
       <<"PathLevel", V(IF Len(path) > 0 THEN CountChar(path, "/") - 1 ELSE 0)>>,
       <<"UrlLength", V(Len(u))>>,
       <<"NumDash", V(CountChar(u, "-"))>>,
       <<"NumDashInHostname", V(CountChar(hostname, "-"))>>,
       <<"AtSymbol", V(BoolInt("@" \in Range(u)))>>,
       <<"TildeSymbol", V(BoolInt("~" \in Range(u)))>>,
       <<"NumUnderscore", V(CountChar(u, "_"))>>,
       <<"NumPercent", V(CountChar(u, "%"))>>,
       <<"NumQueryComponents", V(Cardinality(parse_qs(parsed.query)))>>,
       <<"NumAmpersand", V(CountChar(u, "&"))>>,
       <<"NumHash", V(CountChar(u, "#"))>>,
       <<"NumNumericChars", V(Cardinality({ i \in 1..Len(u) : u[i] \in DigitChars }))>>,
       <<"NoHttps", V(BoolInt(parsed.scheme # HttpsWord))>>,
       <<"RandomString", V(BoolInt(SearchHexRun(u)))>>,
       <<"IpAddress", V(BoolInt(MatchDottedQuad(hostname)))>>,
       <<"HttpsInHostname", V(BoolInt(Contains(hostname, HttpsWord)))>>,
       <<"HostnameLength", V(Len(hostname))>>,
       <<"PathLength", V(Len(path))>>,
       <<"QueryLength", V(Len(parsed.query))>>,
       <<"DoubleSlashInPath", V(BoolInt(Contains(path, <<"/", "/">>)))>>,
       <<"SubdomainLevelRT", math_log(Max(1, CountChar(ext.subdomain, ".") + 1))>>,
       <<"UrlLengthRT", math_log(Max(1, Len(u)))>>,
       <<"IsOfficialDomain", V(BoolInt(official))>>,
       <<"BrandSpoofing", V(IF InList("BrandSpoofing", feature_names)
                            THEN check_brand_usage(hostname) ELSE 0)>>,
       <<"NumSensitiveWords", V(num_sensitive_words(official, u))>> >>

\* the locals of the try block: hostname, path and is_official from parsed
parsed_features(u, parsed, ext) ==
    feature_items(u, parsed, ext, Lower(parsed.netloc), Lower(parsed.path),
                  is_official(Lower(parsed.netloc)))

\* the dict literal for url u
computed_features(u) == parsed_features(u, urlparse(u), tldextract(u))

\* extraction that also fails on an empty hostname
extraction_raises_on_empty_host(u) == urlparse(u).raises \/ urlparse(u).netloc = <<>>

\* the try block of extract_features raises: urlparse is its only call that
\* can raise on the inputs, and it runs first
extraction_raises(u) == urlparse(u).raises

\* features = self.default_features, without the copy
dict_alias(ref) == ref

\* self.default_features.copy(): the object that extract_features fills,
\* "fresh" for a new dict, "defaults" for self.default_features itself
dict_copy(ref) == "fresh"

\* the value of `features` that extract_features returns
extract_features(u) ==
    IF extraction_raises(u) THEN default_features
    ELSE DictUpdate(default_features, computed_features(u))

\* the first statement of analyze: prepend "http://" unless a scheme prefix is there
normalize(u) ==
    IF StartsWith(u, HttpPrefix) \/ StartsWith(u, HttpsPrefix) THEN u ELSE HttpPrefix \o u

\* the one-row frame without the column selection
select_all_columns(feats, names) ==
    [called |-> TRUE, columns |-> Keys(feats),
     row |-> [i \in 1..Len(feats) |-> feats[i][2]]]

\* pd.DataFrame([features])[self.feature_names]: the schema's columns, in
\* the schema's order, of the one-row frame
select_columns(feats, names) ==
    [called |-> TRUE, columns |-> names,
     row |-> [i \in 1..Len(names) |-> DictGet(feats, names[i], V(0))]]

\* the column selection raises KeyError: a schema name is no key of features
frame_raises(feats) ==
    \E i \in 1..Len(feature_names) : ~HasKey(feats, feature_names[i])

\* proba >= 0.7
is_phishing_inclusive(p) == p[1] * ThresholdDen >= ThresholdNum * p[2]

\* proba > 0.7
is_phishing(p) == p[1] * ThresholdDen > ThresholdNum * p[2]

\* the confidence without the cap
confidence_uncapped(p) == ToString((p[1] * 100) \div p[2]) \o "%"

\* f"{min(99, int(proba*100))}%"
confidence_text(p) == ToString(Min(ConfidenceCap, (p[1] * 100) \div p[2])) \o "%"

\* the threats list with the sensitive-word indicator from the limit on
threat_list_from_limit(feats) ==
    (IF Truthy(DictGet(feats, "NoHttps", V(0))) THEN <<"No HTTPS">> ELSE <<>>)
    \o (IF DictGet(feats, "NumSensitiveWords", V(0)).n >= SensitiveLimit
        THEN <<ToString(DictGet(feats, "NumSensitiveWords", V(0)).n) \o " sensitive words">>
        ELSE <<>>)
    \o (IF Truthy(DictGet(feats, "BrandSpoofing", V(0)))
        THEN <<"Brand spoofing detected">> ELSE <<>>)

\* the threats list of analyze
threat_list(feats) ==
    (IF Truthy(DictGet(feats, "NoHttps", V(0))) THEN <<"No HTTPS">> ELSE <<>>)
    \o (IF DictGet(feats, "NumSensitiveWords", V(0)).n > SensitiveLimit
        THEN <<ToString(DictGet(feats, "NumSensitiveWords", V(0)).n) \o " sensitive words">>
        ELSE <<>>)
    \o (IF Truthy(DictGet(feats, "BrandSpoofing", V(0)))
        THEN <<"Brand spoofing detected">> ELSE <<>>)

\* analyze takes the official-domain branch
override_branch(feats) == Truthy(DictGet(feats, "IsOfficialDomain", V(0)))

\* the value analyze returns for the features built from its url, the
\* object ref holding them and the probability p of predict_proba
analyze_result(feats, ref, p) ==
    IF override_branch(feats)
    THEN [kind |-> "verdict", result |-> "Legitimate", confidence |-> "100%",
          threats |-> <<>>, features |-> feats, ref |-> ref, error |-> ""]
    ELSE IF frame_raises(feats)
    THEN [kind |-> "error", result |-> "", confidence |-> "", threats |-> <<>>,
          features |-> <<>>, ref |-> "", error |-> "not in index"]
    ELSE IF ~HasKey(feats, "NoHttps")
    THEN [kind |-> "error", result |-> "", confidence |-> "", threats |-> <<>>,
          features |-> <<>>, ref |-> "", error |-> "'NoHttps'"]
    ELSE [kind |-> "verdict",
          result |-> IF is_phishing(p) THEN "PHISHING" ELSE "Legitimate",
          confidence |-> confidence_text(p),
          threats |-> threat_list(feats), features |-> feats, ref |-> ref,
          error |-> ""]

(***************************************************************************)
(* Actions.  The caller c is main(), or one of several callers of the same *)
(* detector.                                                               *)
(***************************************************************************)
\* the detector after __init__, and callers that have not read a line yet
InitFor(callers) ==
    /\ feature_names \in Schemas
    /\ default_features = ZeroDict(feature_names)
    /\ sensitive_words = SensitiveWordsTable
    /\ official_domains = OfficialDomainsTable
    /\ known_brands = KnownBrandsTable
    /\ pc = [c \in callers |-> "prompt"]
    /\ url = [c \in callers |-> <<>>]
    /\ features = [c \in callers |-> <<>>]
    /\ result = [c \in callers |-> NoResult]
    /\ proba = [c \in callers |-> NoProba]
    /\ scored = [c \in callers |-> NotScored]

Init == InitFor({1})

\* main: url = input(...).strip(), not a quit word
ReadUrl(c, line) ==
    /\ pc[c] = "prompt"
    /\ Lower(Strip(line)) \notin QuitWords
    /\ url' = [url EXCEPT ![c] = Strip(line)]
    /\ pc' = [pc EXCEPT ![c] = "call"]
    /\ features' = [features EXCEPT ![c] = <<>>]
    /\ result' = [result EXCEPT ![c] = NoResult]
    /\ proba' = [proba EXCEPT ![c] = NoProba]
    /\ scored' = [scored EXCEPT ![c] = NotScored]
    /\ UNCHANGED config

\* main: the line is "quit" or "exit" in any case, the loop ends
Quit(c, line) ==
    /\ pc[c] = "prompt"
    /\ Lower(Strip(line)) \in QuitWords
    /\ url' = [url EXCEPT ![c] = Strip(line)]
    /\ pc' = [pc EXCEPT ![c] = "exit"]
    /\ UNCHANGED <<config, features, result, proba, scored>>

\* analyze, first half: features = self.extract_features(url); the dict
\* that is filled is the object ref
Store(c, built, ref) ==
    /\ features' = [features EXCEPT ![c] = built]
    /\ default_features' = IF ref = "defaults" THEN built ELSE default_features

\* analyze, second half: the override test, the scoring and the result,
\* for the features built and a probability out of probs
Decide(c, built, ref, probs) ==
    IF override_branch(built) \/ frame_raises(built)
    THEN /\ proba' = [proba EXCEPT ![c] = NoProba]
         /\ scored' = [scored EXCEPT ![c] = NotScored]
         /\ result' = [result EXCEPT ![c] = analyze_result(built, ref, NoProba)]
    ELSE \E p \in probs :
         /\ proba' = [proba EXCEPT ![c] = p]
         /\ scored' = [scored EXCEPT ![c] = select_columns(built, feature_names)]
         /\ result' = [result EXCEPT ![c] = analyze_result(built, ref, p)]

\* main: result = detector.analyze(url), the whole call in one step
Analyze(c) ==
    /\ pc[c] = "call"
    /\ Store(c, extract_features(normalize(url[c])), dict_copy("defaults"))
    /\ Decide(c, extract_features(normalize(url[c])), dict_copy("defaults"), Probabilities)
    /\ pc' = [pc EXCEPT ![c] = "print"]
    /\ UNCHANGED <<tables, url>>

\* analyze up to the return of extract_features, for callers that overlap
Extract(c) ==
    /\ pc[c] = "call"
    /\ Store(c, extract_features(normalize(url[c])), dict_copy("defaults"))
    /\ pc' = [pc EXCEPT ![c] = "extracted"]
    /\ UNCHANGED <<tables, url, result, proba, scored>>

\* analyze from the override test to its return, for callers that overlap
Finish(c) ==
    /\ pc[c] = "extracted"
    /\ Decide(c, features[c], dict_copy("defaults"), ConcurrentProbabilities)
    /\ pc' = [pc EXCEPT ![c] = "print"]
    /\ UNCHANGED <<config, url, features>>

\* main: print_results(result)
PrintResults(c) ==
    /\ pc[c] = "print"
    /\ pc' = [pc EXCEPT ![c] = "prompt"]
    /\ UNCHANGED <<config, url, features, result, proba, scored>>

\* a caller that writes into the features mapping it was handed
MutatedNames == { "UrlLength", "NoHttps" }
MutatedValue == V(1)
MutateReturned(c, name) ==
    /\ pc[c] = "print"
    /\ result[c].kind = "verdict"
    /\ result' = [result EXCEPT ![c].features = DictSet(@, name, MutatedValue)]
    /\ default_features' = IF result[c].ref = "defaults"
                           THEN DictSet(default_features, name, MutatedValue)
                           ELSE default_features
    /\ pc' = [pc EXCEPT ![c] = "prompt"]
    /\ UNCHANGED <<tables, url, features, proba, scored>>

\* main() alone: read a line, analyze it, print
Next ==
    \/ \E line \in RawInputs : ReadUrl(1, line)
    \/ \E line \in RawInputs : Quit(1, line)
    \/ Analyze(1)
    \/ PrintResults(1)
    \/ \E name \in MutatedNames : MutateReturned(1, name)

Spec == Init /\ [][Next]_vars

\* several callers of one detector, their analyze calls overlapping
InitConcurrent == InitFor(Callers)

NextConcurrent ==
    \E c \in Callers :
        \/ \E line \in ConcurrentInputs : ReadUrl(c, line)
        \/ Extract(c)
        \/ Finish(c)
        \/ PrintResults(c)
        \/ MutateReturned(c, "UrlLength")

SpecConcurrent == InitConcurrent /\ [][NextConcurrent]_vars

(***************************************************************************)
(* Vocabulary of the properties, for a caller c                            *)
(***************************************************************************)
CallerSet == DOMAIN pc
\* analyze has just returned to c
Returned(c) == pc[c] = "print"
\* the url analyze works on after its first statement
CallUrl(c) == normalize(url[c])
\* urlparse accepted the url of the call
ParseOk(c) == ~urlparse(CallUrl(c)).raises
\* the lower-cased hostname of the call
CallHost(c) == Lower(urlparse(CallUrl(c)).netloc)
\* domain.suffix of a tldextract result
DomainDotSuffix(e) == e.domain \o <<".">> \o e.suffix
\* the registrable domain (domain.suffix) of the lower-cased hostname
CallRegistrable(c) == DomainDotSuffix(tldextract(CallHost(c)))
\* host or registrable is a member of official_domains
MemberOfOfficial(host, registrable) ==
    \E i \in 1..Len(official_domains) :
        official_domains[i] = host \/ official_domains[i] = registrable
\* the hostname or its registrable domain is a member of official_domains
HostOfficial(c) == MemberOfOfficial(CallHost(c), CallRegistrable(c))
\* some known brand occurs in host and not in registrable
BrandOutside(host, registrable) ==
    \E i \in 1..Len(known_brands) :
        /\ Contains(host, known_brands[i])
        /\ ~Contains(registrable, known_brands[i])
\* some known brand occurs in the hostname and not in the registrable domain
BrandOnlyOutsideRegistrable(c) == BrandOutside(CallHost(c), CallRegistrable(c))
\* the value of a feature in the returned mapping, 0 when absent
Feature(c, name) == DictGet(result[c].features, name, V(0))
\* the call scored the features with the classifier and returned a verdict
Statistical(c) == Returned(c) /\ scored[c].called /\ result[c].kind = "verdict"
\* the call returned through the official-domain branch
Override(c) == Returned(c) /\ result[c].kind = "verdict" /\ ~scored[c].called

U_MailGoogle == <<"h", "t", "t", "p", "s", ":", "/", "/", "m", "a", "i", "l", ".", "g", "o", "o", "g", "l", "e", ".", "c", "o", "m", "/", "a", "/", "/", "b", "?", "x", "=", "1", "&", "x", "=", "2", "&", "y", "=", "3", "#", "f">>
U_Spoof == <<"h", "t", "t", "p", ":", "/", "/", "p", "a", "y", "p", "a", "l", ".", "s", "e", "c", "u", "r", "e", "-", "l", "o", "g", "i", "n", ".", "e", "x", "a", "m", "p", "l", "e", ".", "c", "o", "m">>
U_ThreeWords == <<"h", "t", "t", "p", ":", "/", "/", "s", "e", "c", "u", "r", "e", "-", "l", "o", "g", "i", "n", "-", "v", "e", "r", "i", "f", "y", ".", "e", "x", "a", "m", "p", "l", "e", ".", "c", "o", "m">>
U_HttpOnly == <<"h", "t", "t", "p", ":", "/", "/">>
U_WwwPaypalLogin == <<"h", "t", "t", "p", ":", "/", "/", "w", "w", "w", ".", "p", "a", "y", "p", "a", "l", ".", "c", "o", "m", "/", "l", "o", "g", "i", "n", "?", "x", "=", "1">>

(***************************************************************************)
(* C1                                                                      *)
(***************************************************************************)
\* C1: a call whose lower-cased hostname, or whose registrable domain, is
\* in official_domains returns Legitimate with confidence 100% and no
\* threats, and predict_proba is not invoked in that call.
C1_OfficialOverride ==
    \A c \in CallerSet :
        (Returned(c) /\ ParseOk(c) /\ HostOfficial(c)) =>
            /\ result[c].kind = "verdict"
            /\ result[c].result = "Legitimate"
            /\ result[c].confidence = "100%"
            /\ result[c].threats = <<>>
            /\ ~scored[c].called
            /\ proba[c] = NoProba

\* an official call decided through the registrable domain only: the
\* hostname mail.google.com is itself no member of the list
C1_Witness ==
    \E c \in CallerSet :
        /\ Returned(c)
        /\ url[c] = U_MailGoogle
        /\ ~MemberOfOfficial(CallHost(c), CallHost(c))
        /\ result[c].confidence = "100%"
        /\ ~scored[c].called

(***************************************************************************)
(* C2                                                                      *)
(***************************************************************************)
\* k is floor(100 * p) for the fraction p
IsFloorOfPercent(k, p) == k * p[2] <= 100 * p[1] /\ 100 * p[1] < (k + 1) * p[2]

\* C2: when the classifier was invoked the returned confidence is
\* min(99, floor(100 * p)), a number in 0..99; on the override branch it is
\* 100; so a confidence of 100 means the override branch, even for p = 1.
C2_ConfidenceBounds ==
    \A c \in CallerSet :
        (Returned(c) /\ result[c].kind = "verdict") =>
            /\ scored[c].called =>
                  /\ result[c].confidence \in { ToString(k) \o "%" : k \in 0..99 }
                  /\ \E k \in 0..100 :
                        /\ IsFloorOfPercent(k, proba[c])
                        /\ result[c].confidence = ToString(IF k > 99 THEN 99 ELSE k) \o "%"
            /\ ~scored[c].called => result[c].confidence = "100%"
            /\ result[c].confidence = "100%" => (~scored[c].called /\ HostOfficial(c))

\* the classifier returned probability 1 and the confidence is 99%
C2_Witness ==
    \E c \in CallerSet :
        /\ Statistical(c)
        /\ proba[c][1] = proba[c][2]
        /\ result[c].confidence = "99%"

(***************************************************************************)
(* C3                                                                      *)
(***************************************************************************)
\* C3: on the statistical branch the verdict is PHISHING exactly when the
\* probability is strictly greater than 7/10.
C3_StrictThreshold ==
    \A c \in CallerSet :
        Statistical(c) =>
            /\ result[c].result \in {"PHISHING", "Legitimate"}
            /\ (result[c].result = "PHISHING") <=> (10 * proba[c][1] > 7 * proba[c][2])

\* the probability is exactly 0.7 and the verdict is Legitimate
C3_Witness ==
    \E c \in CallerSet :
        /\ Statistical(c)
        /\ 10 * proba[c][1] = 7 * proba[c][2]
        /\ result[c].result = "Legitimate"

(***************************************************************************)
(* C4                                                                      *)
(***************************************************************************)
\* C4: the frame handed to the classifier has exactly the schema's names in
\* the schema's order; a computed name outside the schema is dropped and a
\* schema name that is not computed is 0.
C4_SchemaConformance ==
    \A c \in CallerSet :
        (Returned(c) /\ scored[c].called) =>
            /\ scored[c].columns = feature_names
            /\ Len(scored[c].row) = Len(feature_names)
            /\ \A i \in 1..Len(feature_names) :
                  /\ feature_names[i] \notin ComputedNames => scored[c].row[i] = V(0)
                  /\ (feature_names[i] \in ComputedNames /\ ParseOk(c)) =>
                        scored[c].row[i] =
                            DictGet(computed_features(CallUrl(c)), feature_names[i], V(0))

\* a scored call under the schema that omits BrandSpoofing and declares
\* PctExtHyperlinks: the returned mapping has BrandSpoofing, the frame not
C4_Witness ==
    \E c \in CallerSet :
        /\ Returned(c)
        /\ scored[c].called
        /\ ParseOk(c)
        /\ feature_names = SchemaDataset
        /\ HasKey(result[c].features, "BrandSpoofing")
        /\ \A i \in 1..Len(scored[c].columns) : scored[c].columns[i] # "BrandSpoofing"
        /\ scored[c].columns[9] = "PctExtHyperlinks" /\ scored[c].row[9] = V(0)
        /\ scored[c].columns[4] = "UrlLength" /\ scored[c].row[4] = V(Len(CallUrl(c)))

(***************************************************************************)
(* C5                                                                      *)
(***************************************************************************)
\* the call's url parses to an empty hostname, as "http://" does
EmptyHost(c) == ParseOk(c) /\ urlparse(CallUrl(c)).netloc = <<>>

\* C5 as stated: for "http://", and any url with an empty hostname, analyze
\* returns a result whose features are all 0.
C5_AllDefaultOnEmptyHost ==
    \A c \in CallerSet :
        (Returned(c) /\ EmptyHost(c)) =>
            /\ result[c].kind = "verdict"
            /\ \A i \in 1..Len(result[c].features) : result[c].features[i][2] = V(0)

\* C5 amended: for "http://", and any url with an empty hostname, analyze
\* returns a verdict and no error; the features are the computed ones: the
\* hostname features are 0, UrlLength is the length of the normalized url
\* (at least 7), SubdomainLevel is 1 and NoHttps is 1 unless the url starts
\* with "https://".
C5_ComputedOnEmptyHost ==
    \A c \in CallerSet :
        (Returned(c) /\ EmptyHost(c)) =>
            /\ result[c].kind = "verdict"
            /\ scored[c].called
            /\ Feature(c, "HostnameLength") = V(0)
            /\ Feature(c, "NumDashInHostname") = V(0)
            /\ Feature(c, "IpAddress") = V(0)
            /\ Feature(c, "HttpsInHostname") = V(0)
            /\ Feature(c, "IsOfficialDomain") = V(0)
            /\ Feature(c, "BrandSpoofing") = V(0)
            /\ Feature(c, "SubdomainLevel") = V(1)
            /\ Feature(c, "UrlLength").n >= 7
            /\ Feature(c, "UrlLength") = V(Len(CallUrl(c)))
            /\ Feature(c, "NoHttps") = V(IF StartsWith(url[c], HttpsPrefix) THEN 0 ELSE 1)

\* the input "http://" returned a verdict with UrlLength 7 and NoHttps 1
C5_Witness ==
    \E c \in CallerSet :
        /\ Returned(c)
        /\ url[c] = U_HttpOnly
        /\ result[c].kind = "verdict"
        /\ Feature(c, "UrlLength") = V(7)
        /\ Feature(c, "NoHttps") = V(1)
        /\ result[c].threats = <<"No HTTPS">>

(***************************************************************************)
(* C6                                                                      *)
(***************************************************************************)
\* C6 as stated: a hostname that is not official and has a brand outside
\* its registrable domain gets check_brand_usage = 1 and BrandSpoofing = 1;
\* an official hostname, and one whose brands all occur in the registrable
\* domain, gets BrandSpoofing = 0.
C6_BrandSpoofing ==
    \A c \in CallerSet :
        (Returned(c) /\ ParseOk(c)) =>
            /\ (~HostOfficial(c) /\ BrandOnlyOutsideRegistrable(c)) =>
                  /\ check_brand_usage(CallHost(c)) = 1
                  /\ Feature(c, "BrandSpoofing") = V(1)
            /\ (HostOfficial(c) \/ ~BrandOnlyOutsideRegistrable(c)) =>
                  Feature(c, "BrandSpoofing") = V(0)

\* the schema declares the name BrandSpoofing
SchemaHasBrandSpoofing ==
    \E i \in 1..Len(feature_names) : feature_names[i] = "BrandSpoofing"

\* C6 amended: as stated, except that BrandSpoofing is 1 only when the
\* feature schema declares the name BrandSpoofing; when the schema does not
\* declare it the feature is 0 although check_brand_usage returns 1.
C6_BrandSpoofingGated ==
    \A c \in CallerSet :
        (Returned(c) /\ ParseOk(c)) =>
            /\ (~HostOfficial(c) /\ BrandOnlyOutsideRegistrable(c)) =>
                  /\ check_brand_usage(CallHost(c)) = 1
                  /\ Feature(c, "BrandSpoofing") = V(IF SchemaHasBrandSpoofing THEN 1 ELSE 0)
            /\ (HostOfficial(c) \/ ~BrandOnlyOutsideRegistrable(c)) =>
                  /\ check_brand_usage(CallHost(c)) = 0
                  /\ Feature(c, "BrandSpoofing") = V(0)

\* paypal.secure-login.example.com under a schema that declares
\* BrandSpoofing: the feature is 1 and the threat is listed
C6_Witness ==
    \E c \in CallerSet :
        /\ Returned(c)
        /\ url[c] = U_Spoof
        /\ feature_names = SchemaFull
        /\ CallRegistrable(c) = <<"e","x","a","m","p","l","e",".","c","o","m">>
        /\ Feature(c, "BrandSpoofing") = V(1)
        /\ result[c].threats = <<"No HTTPS", "Brand spoofing detected">>

(***************************************************************************)
(* C7                                                                      *)
(***************************************************************************)
\* the elements of items whose flag in keep is set, in order
RECURSIVE Kept(_, _)
Kept(items, keep) ==
    IF Len(items) = 0 THEN <<>>
    ELSE (IF keep[1] THEN <<items[1]>> ELSE <<>>) \o Kept(Tail(items), Tail(keep))

\* C7: on the statistical branch the threats are the subsequence of
\* "No HTTPS", "<n> sensitive words", "Brand spoofing detected" with the
\* first present iff NoHttps is 1, the second iff NumSensitiveWords = n > 2
\* and the third iff BrandSpoofing is 1.
C7_ThreatIndicators ==
    \A c \in CallerSet :
        Statistical(c) =>
            result[c].threats =
                Kept(<<"No HTTPS",
                       ToString(Feature(c, "NumSensitiveWords").n) \o " sensitive words",
                       "Brand spoofing detected">>,
                     <<Feature(c, "NoHttps") = V(1),
                       Feature(c, "NumSensitiveWords").n > 2,
                       Feature(c, "BrandSpoofing") = V(1)>>)

\* http://secure-login-verify.example.com is scored: it has three sensitive
\* words and no https, and both indicators are listed in that order
C7_Witness ==
    \E c \in CallerSet :
        /\ Statistical(c)
        /\ url[c] = U_ThreeWords
        /\ Feature(c, "NumSensitiveWords") = V(3)
        /\ result[c].threats = <<"No HTTPS", "3 sensitive words">>

(***************************************************************************)
(* C8                                                                      *)
(***************************************************************************)
\* C8 as stated: on the override branch the returned features are all 0
\* except IsOfficialDomain, which is 1.
C8_OverrideAllDefault ==
    \A c \in CallerSet :
        Override(c) =>
            \A i \in 1..Len(result[c].features) :
                result[c].features[i][2] =
                    V(IF result[c].features[i][1] = "IsOfficialDomain" THEN 1 ELSE 0)

\* C8 amended: on the override branch the returned features are the vector
\* extract_features computed: IsOfficialDomain is 1, NumSensitiveWords and
\* BrandSpoofing are 0, and the url features keep their computed values
\* (UrlLength the length of the normalized url, NoHttps 1 unless the scheme
\* is https, HostnameLength the length of the hostname).
C8_OverrideComputed ==
    \A c \in CallerSet :
        Override(c) =>
            /\ Feature(c, "IsOfficialDomain") = V(1)
            /\ Feature(c, "NumSensitiveWords") = V(0)
            /\ Feature(c, "BrandSpoofing") = V(0)
            /\ Feature(c, "UrlLength") = V(Len(CallUrl(c)))
            /\ Feature(c, "UrlLength").n >= 7
            /\ Feature(c, "HostnameLength") = V(Len(CallHost(c)))
            /\ Feature(c, "NoHttps") = V(IF StartsWith(url[c], HttpsPrefix) THEN 0 ELSE 1)
            /\ \A i \in 1..Len(feature_names) :
                  feature_names[i] \notin ComputedNames =>
                      Feature(c, feature_names[i]) = V(0)

\* http://www.paypal.com/login?x=1 is official: the sensitive word "login"
\* is not counted while UrlLength, NumDots and NoHttps are computed
C8_Witness ==
    \E c \in CallerSet :
        /\ Override(c)
        /\ url[c] = U_WwwPaypalLogin
        /\ Feature(c, "NumSensitiveWords") = V(0)
        /\ Feature(c, "UrlLength") = V(31)
        /\ Feature(c, "NumDots") = V(2)
        /\ Feature(c, "NoHttps") = V(1)
        /\ Feature(c, "NumQueryComponents") = V(1)

(***************************************************************************)
(* C9                                                                      *)
(***************************************************************************)
\* C9: when the extraction raises, the features are the all-zero vector
\* over the schema's names and analyze goes on to score that vector and
\* returns a verdict, not an error.
C9_ExtractionFailureRecovered ==
    \A c \in CallerSet :
        (Returned(c) /\ ~ParseOk(c)) =>
            /\ features[c] = ZeroDict(feature_names)
            /\ result[c].kind = "verdict"
            /\ scored[c].called
            /\ result[c].features = ZeroDict(feature_names)
            /\ \A i \in 1..Len(scored[c].row) : scored[c].row[i] = V(0)

(***************************************************************************)
(* C10                                                                     *)
(***************************************************************************)
\* the features extract_features builds from the tables as initialized
FeaturesFromInitialTables(c) ==
    IF ParseOk(c)
    THEN DictUpdate(ZeroDict(feature_names), computed_features(CallUrl(c)))
    ELSE ZeroDict(feature_names)

\* the configuration is as __init__ left it
ConfigAsInitialized ==
    /\ feature_names \in Schemas
    /\ default_features = ZeroDict(feature_names)
    /\ sensitive_words = SensitiveWordsTable
    /\ official_domains = OfficialDomainsTable
    /\ known_brands = KnownBrandsTable

\* what a call builds and returns is what the first call on a new detector
\* builds and returns for the same url and probability
ResultIndependentOfHistory ==
    \A c \in CallerSet :
        /\ pc[c] \in {"extracted", "print"} => features[c] = FeaturesFromInitialTables(c)
        /\ Returned(c) =>
              result[c] = analyze_result(FeaturesFromInitialTables(c), "fresh", proba[c])

\* C10: no step of any run of overlapping callers changes feature_names,
\* default_features, sensitive_words, official_domains or known_brands,
\* default_features stays all zeros, and what analyze builds and returns
\* for a url does not depend on the calls before or during it nor on
\* writes into mappings returned earlier.
C10_NoCrossCallState ==
    /\ [](ConfigAsInitialized /\ ResultIndependentOfHistory)
    /\ [][config' = config]_vars

\* one caller is between extract_features and the scoring of its call
\* while another has written UrlLength = 1 into the mapping it was handed,
\* and the detector's defaults are still all zeros
C10_Witness ==
    \E c \in CallerSet : \E d \in CallerSet :
        /\ c # d
        /\ pc[c] = "extracted"
        /\ ~ParseOk(c)
        /\ features[c] = ZeroDict(feature_names)
        /\ pc[d] = "prompt"
        /\ result[d].kind = "verdict"
        /\ Feature(d, "UrlLength") = V(1)
        /\ default_features = ZeroDict(feature_names)
====
